---- MODULE Spec2Model ----
(***************************************************************************)
(* A model of slovak_letters.py: the SlovakWordGenerator class             *)
(* (load_dictionary, normalize_slovak, can_make_word,                      *)
(* calculate_word_score, generate_words) and the session logic of main().  *)
(*                                                                         *)
(* Characters are strings; a text is a sequence of characters.  TLA+       *)
(* strings are ASCII, so a diacritic is written by name: "c_caron" is the  *)
(* one character U+010D, "C_CARON" is U+010C, "a_acute" is U+00E1, ...     *)
(***************************************************************************)
EXTENDS Naturals, Integers, Sequences, FiniteSets, TLC

VARIABLES
    file,                \* the lines of sk_SK.dic read by load_dictionary
    dictionary,          \* SlovakWordGenerator.dictionary (a set of words)
    letters,             \* the letter pool (st.session_state.letters)
    allowed_diacritics,  \* SlovakWordGenerator.allowed_diacritics / session
    word_length,         \* st.session_state.word_length
    constructed,         \* SlovakWordGenerator.__init__ has run
    returned,            \* the values returned by the last two generate_words calls
    outcome,             \* what the last script run displayed for the query
    st_error,            \* the lengths st.error reported: <<expected, actual>>, or <<>>
    words,               \* main's local `words`
    length_groups        \* the "Slova podla dlzky" view, in display order

vars == <<file, dictionary, letters, allowed_diacritics, word_length,
          constructed, returned, outcome, st_error, words, length_groups>>

-----------------------------------------------------------------------------
(* Bounds of the model *)

\* longest enumerated dictionary word
MaxWordLen == 1
\* longest enumerated letter pool
MaxPoolLen == 2
\* most words in an enumerated dictionary
MaxDict == 2
\* longest enumerated line of the dictionary file
MaxLineLen == 2
\* most lines in an enumerated dictionary file
MaxLines == 2

-----------------------------------------------------------------------------
(* Characters *)

\* self.slovak_map: the 17 lowercase diacritics and their base letters
slovak_map ==
    [c \in {"a_acute", "a_diaeresis", "c_caron", "d_caron", "e_acute",
            "i_acute", "l_acute", "l_caron", "n_caron", "o_acute",
            "o_circumflex", "r_acute", "s_caron", "t_caron", "u_acute",
            "y_acute", "z_caron"} |->
        CASE c = "a_acute" -> "a"       [] c = "a_diaeresis" -> "a"
          [] c = "c_caron" -> "c"       [] c = "d_caron" -> "d"
          [] c = "e_acute" -> "e"       [] c = "i_acute" -> "i"
          [] c = "l_acute" -> "l"       [] c = "l_caron" -> "l"
          [] c = "n_caron" -> "n"       [] c = "o_acute" -> "o"
          [] c = "o_circumflex" -> "o"  [] c = "r_acute" -> "r"
          [] c = "s_caron" -> "s"       [] c = "t_caron" -> "t"
          [] c = "u_acute" -> "u"       [] c = "y_acute" -> "y"
          [] c = "z_caron" -> "z"]

\* str.lower() on one character, for the cased characters the model uses
lower_char(c) ==
    CASE c = "C_CARON" -> "c_caron"
      [] c = "A_ACUTE" -> "a_acute"
      [] c = "C" -> "c"
      [] c = "A" -> "a"
      [] OTHER -> c

\* str.lower()
lower(text) == [i \in 1..Len(text) |-> lower_char(text[i])]

Range(s) == {s[i] : i \in 1..Len(s)}

SeqsUpTo(S, n) == UNION {[1..k -> S] : k \in 0..n}

-----------------------------------------------------------------------------
(* SlovakWordGenerator *)

\* normalize_slovak: lowercase, keep allowed characters, map the other diacritics
normalize_slovak(text, allowed) ==
    LET t == lower(text)
    IN [i \in 1..Len(t) |->
          IF t[i] \in allowed THEN t[i]
          ELSE IF t[i] \in DOMAIN slovak_map THEN slovak_map[t[i]]
          ELSE t[i]]

\* collections.Counter(text)[c]
Counter(text, c) == Cardinality({i \in 1..Len(text) : text[i] = c})

\* can_make_word testing presence only, not the counts
can_make_word_presence(available_letters, word) ==
    \A c \in Range(lower(word)) : Counter(lower(available_letters), c) >= 1

\* can_make_word: the pool and the word are compared lowercased, not normalized
can_make_word(available_letters, word) ==
    LET available == lower(available_letters)
        needed == lower(word)
    IN \A c \in Range(needed) : Counter(available, c) >= Counter(needed, c)

RECURSIVE SumBonus(_, _)
SumBonus(word, allowed) ==
    IF word = <<>> THEN 0
    ELSE (IF Head(word) \in allowed THEN 2 ELSE 0) + SumBonus(Tail(word), allowed)

\* calculate_word_score giving the bonus case-insensitively
calculate_word_score_lowered(word, allowed) ==
    Len(word) * 10 + SumBonus(lower(word), allowed)

\* calculate_word_score
calculate_word_score(word, allowed) ==
    LET base_score == Len(word) * 10
        bonus == SumBonus(word, allowed)
    IN base_score + bonus

\* the test of lines 54-57, on the word as stored (no lowercasing)
has_valid_diacritics(word, allowed) ==
    \A i \in 1..Len(word) : word[i] \in allowed \/ word[i] \notin DOMAIN slovak_map

\* a sort key without the length: (-score,)
SortKey_score_only(x) == <<0 - x[2], 0>>

\* the sort key of line 61 as a sequence of integers: (-score, -len(word))
SortKey(x) == <<0 - x[2], 0 - Len(x[1])>>

\* Python's comparison of two key tuples: a < b
KeyLess(a, b) == a[1] < b[1] \/ (a[1] = b[1] /\ a[2] < b[2])

\* one insertion of a stable sort: x goes after every element whose key is not greater
RECURSIVE InsertSorted(_, _)
InsertSorted(x, s) ==
    IF s = <<>> THEN <<x>>
    ELSE IF KeyLess(SortKey(x), SortKey(Head(s))) THEN <<x>> \o s
    ELSE <<Head(s)>> \o InsertSorted(x, Tail(s))

\* no sort at all
sorted_not(results) == results

\* sorted(results, key=...): a stable sort
RECURSIVE sorted(_)
sorted(results) ==
    IF results = <<>> THEN <<>>
    ELSE InsertSorted(results[Len(results)], sorted(SubSeq(results, 1, Len(results) - 1)))

\* the loop of lines 49-60 over the dictionary in its iteration order
RECURSIVE CollectResults(_, _, _)
CollectResults(order, pool, allowed) ==
    IF order = <<>> THEN <<>>
    ELSE LET word == Head(order)
             rest == CollectResults(Tail(order), pool, allowed)
         IN IF can_make_word(pool, word) /\ has_valid_diacritics(word, allowed)
            THEN <<(<<word, calculate_word_score(word, allowed)>>)>> \o rest
            ELSE rest

\* generate_words; `order` is the order in which the set self.dictionary is iterated
generate_words(order, pool, allowed) == sorted(CollectResults(order, pool, allowed))

\* the orders in which a set can be iterated
IterationOrders(S) ==
    {o \in [1..Cardinality(S) -> S] : \A i, j \in 1..Cardinality(S) : i # j => o[i] # o[j]}

\* str.lstrip(): drops the leading whitespace
RECURSIVE lstrip(_)
lstrip(line) ==
    IF line # <<>> /\ Head(line) = " " THEN lstrip(Tail(line)) ELSE line

\* str.rstrip(): drops the trailing whitespace
RECURSIVE rstrip(_)
rstrip(line) ==
    IF line # <<>> /\ line[Len(line)] = " "
    THEN rstrip(SubSeq(line, 1, Len(line) - 1))
    ELSE line

\* a strip that forgets the trailing whitespace
strip_left_only(line) == lstrip(line)

\* str.strip()
strip(line) == rstrip(lstrip(line))

\* line.split('/')[0]
RECURSIVE split_first(_)
split_first(line) ==
    IF line = <<>> \/ Head(line) = "/" THEN <<>>
    ELSE <<Head(line)>> \o split_first(Tail(line))

\* load_dictionary: the loop over the lines of the file, adding to the set
RECURSIVE load_dictionary(_, _)
load_dictionary(lines, dict) ==
    IF lines = <<>> THEN dict
    ELSE LET line == strip(Head(lines))
         IN IF (line # <<>> /\ Head(line) = "#") \/ line = <<>>
            THEN load_dictionary(Tail(lines), dict)
            ELSE load_dictionary(Tail(lines), dict \cup {split_first(line)})

-----------------------------------------------------------------------------
(* The generator called directly: any dictionary, pool and allowed set *)

Diacritic(c) == lower_char(c) \in DOMAIN slovak_map

Alphabet == {"c", "c_caron", "C_CARON"}

caj == <<"c_caron", "a", "j">>
FiveCarons == [i \in 1..5 |-> "c_caron"]
SixPlain == [i \in 1..6 |-> "c"]

Words == SeqsUpTo(Alphabet, MaxWordLen) \cup {caj, FiveCarons, SixPlain}

Pools == SeqsUpTo(Alphabet, MaxPoolLen) \cup {caj, FiveCarons \o SixPlain}

Dictionaries == UNION {{Range(f) : f \in [1..k -> Words]} : k \in 0..MaxDict}

AllowedSets == SUBSET {"c_caron"}

NoQuery ==
    /\ outcome = "idle"
    /\ st_error = <<>>
    /\ words = <<>>
    /\ length_groups = <<>>

InitGen ==
    /\ file = <<>>
    /\ dictionary \in Dictionaries
    /\ letters \in Pools
    /\ allowed_diacritics \in AllowedSets
    /\ word_length = 10
    /\ constructed = TRUE
    /\ returned = <<>>
    /\ NoQuery

\* keeps the return values of the last two calls
Remember(result) ==
    IF returned = <<>> THEN <<result>> ELSE <<returned[Len(returned)], result>>

\* one call generator.generate_words(letters); the set is iterated in some order
CallGenerateWords ==
    /\ constructed
    /\ \E order \in IterationOrders(dictionary) :
          returned' = Remember(generate_words(order, letters, allowed_diacritics))
    /\ UNCHANGED <<file, dictionary, letters, allowed_diacritics, word_length,
                   constructed, outcome, st_error, words, length_groups>>

NextGen == CallGenerateWords

SpecGen == InitGen /\ [][NextGen]_vars

\* the value the last call returned
LastReturned == returned[Len(returned)]

ReturnedWords == {LastReturned[i][1] : i \in 1..Len(LastReturned)}

\* section 4.3 of the specification: diacritics are compared case-insensitively
Authorized(word, allowed) ==
    \A i \in 1..Len(word) : Diacritic(word[i]) => lower_char(word[i]) \in allowed

\* section 4.4 of the specification: containment of the normalized multisets
Formable(pool, word, allowed) ==
    LET p == normalize_slovak(pool, allowed)
        w == normalize_slovak(word, allowed)
    IN \A c \in Range(w) : Counter(w, c) <= Counter(p, c)

\* C1: every authorized dictionary word whose normalized character multiset is
\* contained in that of the normalized pool is in the output of generate_words
\* (a pool diacritic outside the allowed set counts as its base letter).
C1_Completeness ==
    returned # <<>> =>
        \A w \in dictionary :
            (Authorized(w, allowed_diacritics) /\ Formable(letters, w, allowed_diacritics))
                => w \in ReturnedWords

\* C2: a word with a diacritic (of either case) outside the allowed set is never
\* in the output of generate_words.
C2_AuthorizationFilter ==
    returned # <<>> => \A w \in ReturnedWords : Authorized(w, allowed_diacritics)

\* C4: every word in the output is a dictionary word whose normalized character
\* counts are at most those of the normalized pool.
C4_Soundness ==
    returned # <<>> =>
        \A w \in ReturnedWords :
            /\ w \in dictionary
            /\ \A c \in Range(normalize_slovak(w, allowed_diacritics)) :
                  Counter(normalize_slovak(w, allowed_diacritics), c)
                      <= Counter(normalize_slovak(letters, allowed_diacritics), c)

\* two returned words, one that normalization changes and one with a repeated letter
C4_Witness ==
    /\ returned # <<>>
    /\ normalize_slovak(<<"C_CARON">>, allowed_diacritics) = <<"c">>
    /\ ReturnedWords = {<<"C_CARON">>, SixPlain}

\* C5: every returned pair (w, s) has s = 10 * len(w) + 2 * (number of positions
\* of w holding an allowed diacritic).
C5_Scoring ==
    returned # <<>> =>
        \A i \in 1..Len(LastReturned) :
            LET w == LastReturned[i][1]
                s == LastReturned[i][2]
            IN s = 10 * Len(w)
                     + 2 * Cardinality({k \in 1..Len(w) : w[k] \in allowed_diacritics})

\* "caj" (with a caron on the c) scores 32 when the caron is allowed
C5_Witness ==
    /\ returned # <<>>
    /\ allowed_diacritics = {"c_caron"}
    /\ \E i \in 1..Len(LastReturned) : LastReturned[i] = <<caj, 32>>

\* C6: consecutive returned pairs are in descending score order, equal scores in
\* descending length order, and no word is returned twice.
C6_Ordering ==
    returned # <<>> =>
        /\ \A i \in 1..(Len(LastReturned) - 1) :
              LET a == LastReturned[i]
                  b == LastReturned[i + 1]
              IN a[2] > b[2] \/ (a[2] = b[2] /\ Len(a[1]) >= Len(b[1]))
        /\ \A i, j \in 1..Len(LastReturned) :
              i # j => LastReturned[i][1] # LastReturned[j][1]

\* two returned words with the same score and different lengths
C6_Witness ==
    /\ returned # <<>>
    /\ Len(LastReturned) = 2
    /\ LastReturned[1][2] = LastReturned[2][2]
    /\ Len(LastReturned[1][1]) > Len(LastReturned[2][1])

\* C7 as stated: two calls with the same pool, allowed set and dictionary return
\* the identical sequence, whatever the order in which the set is iterated.
C7_Identical ==
    Len(returned) = 2 => returned[1] = returned[2]

\* C7 as amended: two such calls return the same pairs, with the same score and
\* the same word length at every position; only words that tie on both score and
\* length may change places.
C7_SameUpToTies ==
    Len(returned) = 2 =>
        /\ Len(returned[1]) = Len(returned[2])
        /\ Range(returned[1]) = Range(returned[2])
        /\ \A i \in 1..Len(returned[1]) :
              /\ returned[1][i][2] = returned[2][i][2]
              /\ Len(returned[1][i][1]) = Len(returned[2][i][1])

\* two calls whose results differ in the order of two tied words
C7_Witness ==
    /\ Len(returned) = 2
    /\ Len(returned[1]) = 2
    /\ returned[1][1] = returned[2][2]
    /\ returned[1][2] = returned[2][1]
    /\ returned[1] # returned[2]

-----------------------------------------------------------------------------
(* The construction of a generator over any dictionary file *)

LineChars == {" ", "#", "/", "C_CARON"}

Lines == SeqsUpTo(LineChars, MaxLineLen)

InitLoad ==
    /\ file \in SeqsUpTo(Lines, MaxLines)
    /\ dictionary = {}
    /\ letters = <<>>
    /\ allowed_diacritics = {}
    /\ word_length = 10
    /\ constructed = FALSE
    /\ returned = <<>>
    /\ NoQuery

\* SlovakWordGenerator.__init__: the dictionary starts empty and the file is loaded
Construct ==
    /\ ~constructed
    /\ dictionary' = load_dictionary(file, {})
    /\ constructed' = TRUE
    /\ UNCHANGED <<file, letters, allowed_diacritics, word_length, returned,
                   outcome, st_error, words, length_groups>>

NextLoad == Construct

SpecLoad == InitLoad /\ [][NextLoad]_vars

Min(S) == CHOOSE x \in S : \A y \in S : x <= y
Max(S) == CHOOSE x \in S : \A y \in S : x >= y

\* the line between its first and its last character that is not whitespace
Stripped(line) ==
    LET solid == {i \in 1..Len(line) : line[i] # " "}
    IN IF solid = {} THEN <<>> ELSE SubSeq(line, Min(solid), Max(solid))

\* the text before the first '/', the whole text when it has none
BeforeSlash(text) ==
    LET slashes == {i \in 1..Len(text) : text[i] = "/"}
    IN IF slashes = {} THEN text ELSE SubSeq(text, 1, Min(slashes) - 1)

\* C8: after load_dictionary the dictionary is exactly the set of the texts before
\* the first '/' of the stripped lines that are neither empty nor start with '#';
\* duplicates collapse, case and diacritics are kept, no line is rejected.
C8_Loading ==
    constructed =>
        dictionary = {BeforeSlash(Stripped(file[i])) :
                        i \in {k \in 1..Len(file) :
                                 /\ Stripped(file[k]) # <<>>
                                 /\ Stripped(file[k])[1] # "#"}}

\* two different lines give the same capitalised word with its diacritic, once
C8_Witness ==
    /\ constructed
    /\ Len(file) = 2
    /\ file[1] = <<" ", "C_CARON">>
    /\ file[2] = <<"C_CARON", "/">>
    /\ dictionary = {<<"C_CARON">>}

-----------------------------------------------------------------------------
(* main(): the session state and one script run per user event.  A widget    *)
(* returns what the user last set it to; the text input and the checkboxes  *)
(* are created with their value taken from the session state.               *)

\* the options of the radio, line 82
WordLengths == {5, 10, 15}

\* the checkboxes of diacritic_groups, lines 123-127
CheckboxChars ==
    {"a_acute", "e_acute", "i_acute", "o_acute", "u_acute", "y_acute",
     "c_caron", "d_caron", "l_caron", "n_caron", "s_caron", "t_caron", "z_caron",
     "a_diaeresis", "l_acute", "o_circumflex", "r_acute"}

\* the checkboxes the modelled user touches
TickedChars == {"c_caron", "a_acute"}

\* the texts the modelled user types
TypedTexts ==
    SeqsUpTo({"c", "c_caron"}, MaxPoolLen)
        \cup [1..5 -> {"c", "c_caron"}]
        \cup {[i \in 1..n |-> "c"] : n \in WordLengths}
        \cup {<<"C_CARON", "c_caron", "c", "c", "c">>}

\* the contents of sk_SK.dic the model tries
SampleFiles ==
    { << <<"#", "c">>,
         <<"c", "/", "c">>,
         <<"c_caron">>,
         <<"c", "c">>,
         <<"c_caron", "c">>,
         <<"C_CARON", "c", "c">> >>,
      << <<"a">> >> }

InitUI ==
    /\ file \in SampleFiles
    /\ dictionary = {}
    /\ letters = <<>>
    /\ allowed_diacritics = {}
    /\ word_length = 10
    /\ constructed = FALSE
    /\ returned = <<>>
    /\ NoQuery

\* a script run in which the generate button is not pressed displays no query
NoQueryAfter ==
    /\ outcome' = "idle"
    /\ st_error' = <<>>
    /\ words' = <<>>
    /\ length_groups' = <<>>
    /\ returned' = <<>>
    /\ UNCHANGED <<file, dictionary, constructed>>

\* lines 136-142: a checkbox is ticked
TickCheckbox(char) ==
    /\ char \notin allowed_diacritics
    /\ allowed_diacritics' = allowed_diacritics \cup {char}
    /\ UNCHANGED <<letters, word_length>>
    /\ NoQueryAfter

\* lines 136-144: a checkbox is unticked
UntickCheckbox(char) ==
    /\ char \in allowed_diacritics
    /\ allowed_diacritics' = allowed_diacritics \ {char}
    /\ UNCHANGED <<letters, word_length>>
    /\ NoQueryAfter

\* lines 153-155: the "clear diacritics" button
ClearDiacritics ==
    /\ allowed_diacritics' = {}
    /\ UNCHANGED <<letters, word_length>>
    /\ NoQueryAfter

\* a length selection that keeps the letters
SelectLength_keep_letters(selected_length) ==
    /\ selected_length # word_length
    /\ word_length' = selected_length
    /\ UNCHANGED <<letters, allowed_diacritics>>
    /\ NoQueryAfter

\* lines 80-90: another word length is selected
SelectLength(selected_length) ==
    /\ selected_length # word_length
    /\ word_length' = selected_length
    /\ letters' = <<>>
    /\ UNCHANGED allowed_diacritics
    /\ NoQueryAfter

\* lines 117-121 and 163-164: the text is edited
EditLetters(text) ==
    /\ text # letters
    /\ letters' = text
    /\ UNCHANGED <<allowed_diacritics, word_length>>
    /\ NoQueryAfter

\* lines 159-161: the "clear text" button
ClearText ==
    /\ letters' = <<>>
    /\ UNCHANGED <<allowed_diacritics, word_length>>
    /\ NoQueryAfter

\* a length test that only refuses pools that are too short
LengthAccepted_at_least(normalized_len, target) == normalized_len >= target

\* line 170: the pool is accepted when its normalized length is the word length
LengthAccepted(normalized_len, target) == ~(normalized_len # target)

\* the distinct word lengths of a result, longest first: sorted(keys, reverse=True)
RECURSIVE SortedKeysDescending(_)
SortedKeysDescending(keys) ==
    IF keys = {} THEN <<>>
    ELSE <<Max(keys)>> \o SortedKeysDescending(keys \ {Max(keys)})

\* a grouping that starts a new list at every pair
BuildGroups_reset(pairs, groups) ==
    IF pairs = <<>> THEN groups
    ELSE [n \in {Len(pairs[i][1]) : i \in 1..Len(pairs)} |->
            <<pairs[Max({i \in 1..Len(pairs) : Len(pairs[i][1]) = n})]>>]

\* lines 207-212: the dict from a length to the list of the pairs of that length
RECURSIVE BuildGroups(_, _)
BuildGroups(pairs, groups) ==
    IF pairs = <<>> THEN groups
    ELSE LET length == Len(Head(pairs)[1])
             old == IF length \in DOMAIN groups THEN groups[length] ELSE <<>>
         IN BuildGroups(Tail(pairs),
                [n \in DOMAIN groups \cup {length} |->
                    IF n = length THEN Append(old, Head(pairs)) ELSE groups[n]])

\* one insertion of group.sort(key=score, reverse=True), which is stable
RECURSIVE InsertByScore(_, _)
InsertByScore(x, s) ==
    IF s = <<>> THEN <<x>>
    ELSE IF x[2] > Head(s)[2] THEN <<x>> \o s
    ELSE <<Head(s)>> \o InsertByScore(x, Tail(s))

\* line 216: group.sort(key=lambda x: x[1], reverse=True)
RECURSIVE SortGroup(_)
SortGroup(group) ==
    IF group = <<>> THEN <<>>
    ELSE InsertByScore(group[Len(group)], SortGroup(SubSeq(group, 1, Len(group) - 1)))

\* lines 207-216: the groups in the order they are written, each as <<length, group>>
LengthGroups(pairs) ==
    LET groups == BuildGroups(pairs, <<>>)
        keys == SortedKeysDescending(DOMAIN groups)
    IN [i \in 1..Len(keys) |-> <<keys[i], SortGroup(groups[keys[i]])>>]

\* lines 158 and 166-221: the "generate" button
Generate ==
    /\ UNCHANGED <<file, letters, allowed_diacritics, word_length>>
    /\ IF letters = <<>>
       THEN /\ outcome' = "ignored"
            /\ st_error' = <<>>
            /\ words' = <<>>
            /\ length_groups' = <<>>
            /\ returned' = <<>>
            /\ UNCHANGED <<dictionary, constructed>>
       ELSE /\ dictionary' = load_dictionary(file, {})
            /\ constructed' = TRUE
            /\ LET normalized_len == Len(normalize_slovak(letters, allowed_diacritics))
               IN IF ~LengthAccepted(normalized_len, word_length)
                  THEN /\ outcome' = "error"
                       /\ st_error' = <<word_length, normalized_len>>
                       /\ words' = <<>>
                       /\ length_groups' = <<>>
                       /\ returned' = <<>>
                  ELSE \E order \in IterationOrders(dictionary') :
                          LET result == generate_words(order, letters, allowed_diacritics)
                          IN /\ returned' = <<result>>
                             /\ words' = result
                             /\ st_error' = <<>>
                             /\ outcome' = IF result = <<>> THEN "warning" ELSE "success"
                             /\ length_groups' =
                                   IF result = <<>> THEN <<>> ELSE LengthGroups(result)

NextUI ==
    \/ \E char \in TickedChars : TickCheckbox(char)
    \/ \E char \in TickedChars : UntickCheckbox(char)
    \/ ClearDiacritics
    \/ \E selected_length \in WordLengths : SelectLength(selected_length)
    \/ \E text \in TypedTexts : EditLetters(text)
    \/ ClearText
    \/ Generate

SpecUI == InitUI /\ [][NextUI]_vars

\* the generate button was pressed in the last script run
Pressed == outcome # "idle"

ActualLength == Len(normalize_slovak(letters, allowed_diacritics))

C9_LengthGroups ==
    outcome = "success" =>
        /\ \A i \in 1..Len(words) :
              Cardinality({g \in 1..Len(length_groups) :
                             words[i] \in Range(length_groups[g][2])}) = 1
        /\ \A g \in 1..Len(length_groups) :
              LET length == length_groups[g][1]
                  group == length_groups[g][2]
              IN /\ group # <<>>
                 /\ Len(group) = Cardinality({i \in 1..Len(words) : Len(words[i][1]) = length})
                 /\ \A k \in 1..Len(group) :
                       /\ group[k] \in Range(words)
                       /\ Len(group[k][1]) = length
                 /\ \A k \in 1..(Len(group) - 1) : group[k][2] >= group[k + 1][2]
        /\ \A g \in 1..(Len(length_groups) - 1) :
              length_groups[g][1] > length_groups[g + 1][1]
        /\ words = returned[1]

\* a result with three groups, two of them with two words of different scores
C9_Witness ==
    /\ outcome = "success"
    /\ Len(length_groups) = 3
    /\ Len(words) = 5
    /\ \E g \in 1..3 :
          /\ Len(length_groups[g][2]) = 2
          /\ length_groups[g][2][1][2] > length_groups[g][2][2][2]

\* C10: the stored allowed set is a subset of the 17 checkbox diacritics, the
\* stored word length is 5, 10 or 15, and a step that changes the stored word
\* length (another length was selected) leaves the stored letters empty.
C10_SessionState ==
    /\ [](allowed_diacritics \subseteq CheckboxChars /\ word_length \in WordLengths)
    /\ [][word_length' # word_length => letters' = <<>>]_vars

\* another length was selected in a session that has run a query
C10_Witness ==
    /\ word_length = 15
    /\ letters = <<>>
    /\ allowed_diacritics = TickedChars
    /\ constructed

====
